---- MODULE Spec2Model ----
(***************************************************************************)
(* Model of the converters, the flattener, the cluster-spec builder and    *)
(* the destroy check of terraform-provider-vcf.                            *)
(*                                                                         *)
(* Go values of type interface{} are tagged records; a Go map is a         *)
(* function whose domain is the set of keys present; a panic (failed type  *)
(* assertion) is the outcome kind "panic".                                 *)
(***************************************************************************)
EXTENDS Integers, Sequences, FiniteSets, TLC

VARIABLES fn, pc, object, nicRet, nsxRet, ref, flat,
          state, remote, remaining, destroyRet, rawData, clusterRet

convVars == <<object, nicRet, nsxRet, ref, flat>>
destroyVars == <<state, remote, remaining, destroyRet>>
clusterVars == <<rawData, clusterRet>>
vars == <<fn, pc, convVars, destroyVars, clusterVars>>

\* ---------------------------------------------------------------- bounds
MaxNodes == 2
MaxResources == 3
MaxPools == 2

\* ------------------------------------------------- interface{} values
Nil == [t |-> "nil", s |-> "", l |-> <<>>]
Absent == [t |-> "absent", s |-> "", l |-> <<>>]
Str(s) == [t |-> "string", s |-> s, l |-> <<>>]
List(l) == [t |-> "list", s |-> "", l |-> l]

\* m[k] of a Go map: the nil interface when the key is missing
Lookup(m, k) == IF k \in DOMAIN m THEN m[k] ELSE Nil

\* the map that holds the keys of a choice record that are not Absent
Strip(r) == [k \in {x \in DOMAIN r : r[x] # Absent} |-> r[k]]

EmptyMap == [k \in {} |-> Nil]
NilObject == [nil |-> TRUE, m |-> EmptyMap]
Obj(m) == [nil |-> FALSE, m |-> m]

\* validation.IsEmpty: nil and the empty string are empty
IsEmpty(v) == v.t = "nil" \/ (v.t = "string" /\ v.s = "")

\* ------------------------------------------------------ error messages
\* a message is the sequence of its words; a name occurs in a message when
\* it is a substring of one of the words
ProperSubstr == {<<"vip", "vip_fqdn">>, <<"nsx_manager", "nsx_manager_node">>,
                 <<"nsx_manager", "nsx_manager_admin_password">>,
                 <<"nsx_manager", "nsx_manager_audit_password">>}
Contains(msg, name) == \E i \in 1..Len(msg) : msg[i] = name \/ <<name, msg[i]>> \in ProperSubstr

NoMsg == <<>>
ErrNic(what) == <<"cannot", "convert", "to", "VMNic,">> \o what
ErrNsx(what) == <<"cannot", "convert", "to", "NsxTSpec,">> \o what

\* --------------------------------------------------- TryConvertToVmNic
NicNone == [kind |-> "none", msg |-> NoMsg, ID |-> "", Uplink |-> "", VdsName |-> ""]
NicPanic == [NicNone EXCEPT !.kind = "panic"]
NicErr(msg) == [NicNone EXCEPT !.kind = "err", !.msg = msg]

\* the optional-field assignment: the value when the guarded assertion runs
OptString(m, k) == IF k \in DOMAIN m /\ ~IsEmpty(m[k]) THEN m[k] ELSE Str("")

\* variant: the length check on id is missing
TryConvertToVmNicNoIdCheck(o) ==
    IF o.nil THEN NicErr(ErrNic(<<"object", "is", "nil">>))
    ELSE LET id == Lookup(o.m, "id") IN
      IF id.t # "string" THEN NicPanic
      ELSE [kind |-> "ok", msg |-> NoMsg, ID |-> id.s,
            Uplink |-> OptString(o.m, "uplink").s, VdsName |-> OptString(o.m, "vds_name").s]

TryConvertToVmNic(o) ==
    IF o.nil THEN NicErr(ErrNic(<<"object", "is", "nil">>))
    ELSE LET id == Lookup(o.m, "id") IN
      IF id.t # "string" THEN NicPanic
      ELSE IF Len(id.s) = 0 THEN NicErr(ErrNic(<<"id", "is", "required">>))
      ELSE LET uplink == OptString(o.m, "uplink")
               vdsName == OptString(o.m, "vds_name") IN
        IF uplink.t # "string" \/ vdsName.t # "string" THEN NicPanic
        ELSE [kind |-> "ok", msg |-> NoMsg, ID |-> id.s, Uplink |-> uplink.s, VdsName |-> vdsName.s]

NicChoice == [id : {Absent, Str(""), Str("vmnic0")},
              uplink : {Absent, Str(""), Str("uplink1")},
              vds_name : {Absent, Str(""), Str("vds01")}]

InitNic == /\ fn = "vmnic"
           /\ \E r \in NicChoice \cup {NilObject} :
                 object = IF r = NilObject THEN NilObject ELSE Obj(Strip(r))

ConvertVmNic ==
    /\ fn = "vmnic" /\ pc = "start"
    /\ nicRet' = TryConvertToVmNic(object)
    /\ pc' = "done"
    /\ UNCHANGED <<fn, object, nsxRet, ref, flat, destroyVars, clusterVars>>

\* ----------------------------------------- TryConvertToNsxManagerNodeSpec
\* an nsx_manager_node element is a map with the keys name and ip_address
NodeA == [name |-> Str("nsx01a"), ip_address |-> Str("10.0.0.62")]
NodeB == [name |-> Str("nsx01b"), ip_address |-> Str("10.0.0.63")]
NodeNoName == [name |-> Str(""), ip_address |-> Str("10.0.0.64")]
NodeNoIp == [name |-> Str("nsx01c"), ip_address |-> Str("")]
Nodes == {NodeA, NodeB, NodeNoName, NodeNoIp}

ErrNode(what) == <<"cannot", "convert", "to", "NsxManagerSpec,">> \o what

\* returns the NsxManagerSpec by value together with the error
TryConvertToNsxManagerNodeSpec(node) ==
    IF Len(node.name.s) = 0
    THEN [err |-> TRUE, msg |-> ErrNode(<<"name", "is", "required">>), Name |-> "", IpAddress |-> ""]
    ELSE IF Len(node.ip_address.s) = 0
    THEN [err |-> TRUE, msg |-> ErrNode(<<"ip_address", "is", "required">>), Name |-> "", IpAddress |-> ""]
    ELSE [err |-> FALSE, msg |-> NoMsg, Name |-> node.name.s, IpAddress |-> node.ip_address.s]

\* ------------------------------------------------- TryConvertToNsxSpec
NoHeap == [a \in {} |-> 0]
NsxNone == [kind |-> "none", msg |-> NoMsg, Vip |-> "", VipFqdn |-> "",
            NsxManagerAdminPassword |-> "", LicenseKey |-> "", FormFactor |-> "",
            NsxManagerAuditPassword |-> "", NsxManagerSpecs |-> <<>>, heap |-> NoHeap]
NsxPanic == [NsxNone EXCEPT !.kind = "panic"]
NsxErr(msg) == [NsxNone EXCEPT !.kind = "err", !.msg = msg]

\* the cell that holds nsxManagerSpec in iteration i of the loop: the variable
\* is declared in the loop body, so every iteration has a cell of its own
\* variant: one variable declared outside the loop
SpecCellShared(i) == 1
SpecCell(i) == i

\* the loop over nsx_manager_node: the error of the first element that fails,
\* or the pointers appended and the cells they point to
ConvertNodes(list) ==
    LET n == Len(list)
        conv == [i \in 1..n |-> TryConvertToNsxManagerNodeSpec(list[i])]
        failed == {i \in 1..n : conv[i].err}
        first == CHOOSE i \in failed : \A j \in failed : i <= j
        cells == {SpecCell(i) : i \in 1..n}
        lastWrite(a) == CHOOSE i \in 1..n : SpecCell(i) = a /\ \A j \in 1..n : SpecCell(j) = a => j <= i
    IN IF failed # {}
       THEN [err |-> TRUE, msg |-> conv[first].msg, ptrs |-> <<>>, heap |-> NoHeap]
       ELSE [err |-> FALSE, msg |-> NoMsg,
             ptrs |-> [i \in 1..n |-> SpecCell(i)],
             heap |-> [a \in cells |-> [Name |-> conv[lastWrite(a)].Name,
                                        IpAddress |-> conv[lastWrite(a)].IpAddress]]]

NsxTail(o, vip, vipFqdn, pass, lic) ==
    LET formFactor == OptString(o.m, "form_factor")
        audit == OptString(o.m, "nsx_manager_audit_password")
        nodes == Lookup(o.m, "nsx_manager_node") IN
    IF formFactor.t # "string" THEN NsxPanic
    ELSE IF audit.t # "string" THEN NsxPanic
    ELSE IF nodes.t # "list" THEN NsxPanic
    ELSE IF Len(nodes.l) = 0
      THEN NsxErr(ErrNsx(<<"at", "least", "one", "entry", "for", "nsx_manager", "is", "required">>))
    ELSE LET c == ConvertNodes(nodes.l) IN
      IF c.err THEN NsxErr(c.msg)
      ELSE [kind |-> "ok", msg |-> NoMsg, Vip |-> vip, VipFqdn |-> vipFqdn,
            NsxManagerAdminPassword |-> pass, LicenseKey |-> lic,
            FormFactor |-> formFactor.s, NsxManagerAuditPassword |-> audit.s,
            NsxManagerSpecs |-> c.ptrs, heap |-> c.heap]

TryConvertToNsxSpec(o) ==
    IF o.nil THEN NsxErr(ErrNsx(<<"object", "is", "nil">>))
    ELSE LET vip == Lookup(o.m, "vip")
             vipFqdn == Lookup(o.m, "vip_fqdn")
             pass == Lookup(o.m, "nsx_manager_admin_password")
             lic == Lookup(o.m, "license_key") IN
      IF vip.t # "string" THEN NsxPanic
      ELSE IF Len(vip.s) = 0 THEN NsxErr(ErrNsx(<<"vip", "is", "required">>))
      ELSE IF vipFqdn.t # "string" THEN NsxPanic
      ELSE IF Len(vipFqdn.s) = 0 THEN NsxErr(ErrNsx(<<"vip_fqdn", "is", "required">>))
      ELSE IF Lookup(o.m, "nsx_manager") = Nil
        THEN NsxErr(ErrNsx(<<"nsx_manager", "is", "required">>))
      ELSE IF pass.t # "string" THEN NsxPanic
      ELSE IF Len(pass.s) = 0
        THEN NsxErr(ErrNsx(<<"nsx_manager_admin_password", "is", "required">>))
      ELSE IF lic.t # "string" THEN NsxPanic
      ELSE IF Len(lic.s) = 0 THEN NsxErr(ErrNsx(<<"license_key", "is", "required">>))
      ELSE NsxTail(o, vip.s, vipFqdn.s, pass.s, lic.s)

\* the attributes of NsxSchema
NsxSchemaKeys == {"vip", "vip_fqdn", "license_key", "form_factor",
                  "nsx_manager_admin_password", "nsx_manager_audit_password",
                  "nsx_manager_node"}
NsxRequired == {"vip", "vip_fqdn", "license_key", "nsx_manager_admin_password",
                "nsx_manager_node"}

RECURSIVE SeqsUpTo(_, _)
SeqsUpTo(S, n) == IF n = 0 THEN {<<>>}
                  ELSE LET shorter == SeqsUpTo(S, n - 1) IN
                       shorter \cup {Append(q, x) : q \in shorter, x \in S}

NodeLists == {List(l) : l \in SeqsUpTo(Nodes, MaxNodes)}

\* the keys TryConvertToNsxSpec reads: those of the schema and nsx_manager
NsxChoice == [vip : {Absent, Str(""), Str("10.0.0.66")},
              vip_fqdn : {Absent, Str(""), Str("nsx01.io")},
              license_key : {Absent, Str(""), Str("AAAAA-BBBBB")},
              form_factor : {Absent, Str(""), Str("small")},
              nsx_manager_admin_password : {Absent, Str(""), Str("Nqkva_parola1")},
              nsx_manager_audit_password : {Absent, Str(""), Str("Audit_parola1")},
              nsx_manager : {Absent, Nil, Str("x")},
              nsx_manager_node : {Absent} \cup NodeLists]

InitNsx == /\ fn = "nsx"
           /\ \E r \in NsxChoice \cup {NilObject} :
                 object = IF r = NilObject THEN NilObject ELSE Obj(Strip(r))

ConvertNsx ==
    /\ fn \in {"nsx", "roundtrip"} /\ pc = "start"
    /\ nsxRet' = TryConvertToNsxSpec(object)
    /\ pc' = IF fn = "nsx" THEN "done" ELSE "converted"
    /\ UNCHANGED <<fn, object, nicRet, ref, flat, destroyVars, clusterVars>>

\* ------------------------------------------------ FlattenNsxClusterRef
NilRef == [nil |-> TRUE, ID |-> "", Vip |-> "", VipFqdn |-> ""]
Refs == {NilRef} \cup [nil : {FALSE}, ID : {"nsx-cluster-1"},
                       Vip : {"10.0.0.66", "10.0.0.67"},
                       VipFqdn : {"nsx01.io", "nsx02.io"}]

\* the attributes of NsxClusterRefSchema
NsxClusterRefKeys == {"id", "vip", "vip_fqdn"}

NoFlat == [ptrNil |-> TRUE, m |-> EmptyMap]

\* variant: a nil reference is answered with a nil pointer
FlattenNsxClusterRefNilOnNil(nsxClusterRef) ==
    IF nsxClusterRef.nil THEN [ptrNil |-> TRUE, m |-> EmptyMap]
    ELSE [ptrNil |-> FALSE,
          m |-> [k \in NsxClusterRefKeys |->
                   IF k = "id" THEN Str(nsxClusterRef.ID)
                   ELSE IF k = "vip" THEN Str(nsxClusterRef.Vip)
                   ELSE Str(nsxClusterRef.VipFqdn)]]

\* variant: vip and vip_fqdn are filled from each other's field
FlattenNsxClusterRefSwapped(nsxClusterRef) ==
    IF nsxClusterRef.nil THEN [ptrNil |-> FALSE, m |-> EmptyMap]
    ELSE [ptrNil |-> FALSE,
          m |-> [k \in NsxClusterRefKeys |->
                   IF k = "id" THEN Str(nsxClusterRef.ID)
                   ELSE IF k = "vip" THEN Str(nsxClusterRef.VipFqdn)
                   ELSE Str(nsxClusterRef.Vip)]]

\* the returned pointer is the address of the local map, so it is never nil
FlattenNsxClusterRef(nsxClusterRef) ==
    IF nsxClusterRef.nil THEN [ptrNil |-> FALSE, m |-> EmptyMap]
    ELSE [ptrNil |-> FALSE,
          m |-> [k \in NsxClusterRefKeys |->
                   IF k = "id" THEN Str(nsxClusterRef.ID)
                   ELSE IF k = "vip" THEN Str(nsxClusterRef.Vip)
                   ELSE Str(nsxClusterRef.VipFqdn)]]

InitFlatten == /\ fn = "flatten"
               /\ object = NilObject
               /\ ref \in Refs

\* convert-then-flatten: a fully populated object and a cluster reference
FullNodeLists == {List(l) : l \in SeqsUpTo({NodeA, NodeB}, MaxNodes) \ {<<>>}}
FullChoice == [vip : {Str("10.0.0.66")},
               vip_fqdn : {Str("nsx01.io")},
               license_key : {Str("AAAAA-BBBBB")},
               form_factor : {Str("small")},
               nsx_manager_admin_password : {Str("Nqkva_parola1")},
               nsx_manager_audit_password : {Str("Audit_parola1")},
               nsx_manager : {Absent, Str("x")},
               nsx_manager_node : FullNodeLists]

InitRoundTrip == /\ fn = "roundtrip"
                 /\ \E r \in FullChoice : object = Obj(Strip(r))
                 /\ ref \in Refs

Flatten ==
    /\ \/ fn = "flatten" /\ pc = "start"
       \/ fn = "roundtrip" /\ pc = "converted"
    /\ flat' = FlattenNsxClusterRef(ref)
    /\ pc' = "done"
    /\ UNCHANGED <<fn, object, nicRet, nsxRet, ref, destroyVars, clusterVars>>

\* ------------------------------------------- testCheckVcfDomainDestroy
\* state: the resources of the root module, by name; remote: what GetDomain
\* answers for the id of each resource
ResourceNames == 1..MaxResources
ResourceTypes == {"vcf_domain", "vcf_host"}
Lookups == {"apiError", "payload", "nilPayload"}

\* the body of the loop for one resource: go on, or return
CheckResource(rs, answer) ==
    IF rs.Type # "vcf_domain" THEN "continue"
    ELSE IF answer = "apiError" THEN "nil"
    ELSE IF answer = "payload" THEN "error"
    ELSE "continue"

InitDestroy == /\ fn = "destroy"
               /\ state \in [ResourceNames -> [Type : ResourceTypes]]
               /\ remote \in [ResourceNames -> Lookups]
               /\ remaining = ResourceNames
               /\ destroyRet = "running"

\* one iteration of the range over the resources map, whose order is not fixed
DestroyVisit ==
    /\ fn = "destroy" /\ pc = "start"
    /\ \E name \in remaining :
          LET out == CheckResource(state[name], remote[name]) IN
          /\ remaining' = remaining \ {name}
          /\ destroyRet' = IF out = "continue" THEN destroyRet ELSE out
          /\ pc' = IF out = "continue" THEN pc ELSE "done"
    /\ UNCHANGED <<fn, state, remote, convVars, clusterVars>>

\* the range is exhausted: return nil
DestroyReturn ==
    /\ fn = "destroy" /\ pc = "start" /\ remaining = {}
    /\ destroyRet' = "nil"
    /\ pc' = "done"
    /\ UNCHANGED <<fn, state, remote, remaining, convVars, clusterVars>>

\* ---------------------------------------- GetSddcClusterSpecFromSchema
MaxItems == 1

\* values of vm_folder by dynamic type
NilFolder == [t |-> "nil", m |-> EmptyMap]
FolderOf(t, m) == [t |-> t, m |-> m]
MapTypes == {"map[string]interface{}", "map[string]string"}

\* validation.IsEmpty on a vm_folder value
IsEmptyFolder(v) == v.t = "nil" \/ (v.t \in MapTypes /\ DOMAIN v.m = {})

\* a float64 is counted in halves; int64(f) truncates toward zero
Float(n) == 2 * n
Int64OfFloat(h) == IF h >= 0 THEN h \div 2 ELSE -((-h) \div 2)

\* a Go int is 64 bits wide: four 16-bit limbs, lowest first, two's complement
Limb == 2^16
I64(n) == LET lo == n % Limb
              hi == ((n - lo) \div Limb) % Limb
              ext == IF n < 0 THEN Limb - 1 ELSE 0
          IN <<lo, hi, ext, ext>>

\* int32(i) keeps the low 32 bits and reads them as a signed number
Int32(i) == (IF i[2] >= Limb \div 2 THEN i[2] - Limb ELSE i[2]) * Limb + i[1]

\* utils.ToInt32Pointer, utils.ToStringPointer, utils.ToBoolPointer: a pointer
\* to the converted value, modelled by the value
ToInt32Pointer(i) == Int32(i)
ToStringPointer(x) == x
ToBoolPointer(x) == x

NilSpecs == [nil |-> TRUE, l |-> <<>>]

ResourcePoolSpec(data) ==
    [CPULimit |-> Int64OfFloat(data.cpu_limit),
     CPUReservationExpandable |-> data.cpu_reservation_expandable,
     CPUReservationMhz |-> Int64OfFloat(data.cpu_reservation_mhz),
     CPUReservationPercentage |-> ToInt32Pointer(data.cpu_reservation_percentage),
     CPUSharesValue |-> Int32(data.cpu_shares_value),
     CPUSharesLevel |-> data.cpu_shares_level,
     MemoryLimit |-> Int64OfFloat(data.memory_limit),
     MemorySharesLevel |-> data.memory_shares_level,
     MemoryReservationPercentage |-> ToInt32Pointer(data.memory_reservation_percentage),
     MemoryReservationExpandable |-> ToBoolPointer(data.memory_reservation_expandable),
     MemoryReservationMb |-> Int64OfFloat(data.memory_reservation_mb),
     MemorySharesValue |-> Int32(data.memory_shares_value),
     Name |-> ToStringPointer(data.name),
     Type |-> data.type]

\* a nil slice for no entries, else one spec appended per entry
getResourcePoolSpecsFromSchema(pools) ==
    IF Len(pools) = 0 THEN NilSpecs
    ELSE [nil |-> FALSE, l |-> [i \in 1..Len(pools) |-> ResourcePoolSpec(pools[i])]]

ClusterNone == [kind |-> "none", ClusterEvcMode |-> "", ClusterName |-> "",
                HostFailuresToTolerate |-> 0, VMFolders |-> NilFolder,
                ResourcePoolSpecs |-> NilSpecs]

GetSddcClusterSpecFromSchema(raw) ==
    IF Len(raw) <= 0 THEN [ClusterNone EXCEPT !.kind = "nil"]
    ELSE LET data == raw[1] IN
      IF ~IsEmptyFolder(data.vm_folder) /\ data.vm_folder.t # "map[string]string"
      THEN [ClusterNone EXCEPT !.kind = "panic"]
      ELSE LET specs == getResourcePoolSpecsFromSchema(data.resource_pool) IN
        [kind |-> "ok",
         ClusterEvcMode |-> data.cluster_evc_mode,
         ClusterName |-> ToStringPointer(data.cluster_name),
         HostFailuresToTolerate |-> ToInt32Pointer(data.host_failures_to_tolerate),
         VMFolders |-> IF IsEmptyFolder(data.vm_folder) THEN NilFolder ELSE data.vm_folder,
         ResourcePoolSpecs |-> IF Len(specs.l) > 0 THEN specs ELSE NilSpecs]

\* resource_pool entries as the schema delivers them, defaults filled in
PoolDefault == [name |-> "rp-mgmt", type |-> "management",
                cpu_limit |-> Float(-1), cpu_reservation_expandable |-> TRUE,
                cpu_reservation_mhz |-> Float(0), cpu_reservation_percentage |-> I64(0),
                cpu_shares_level |-> "normal", cpu_shares_value |-> I64(0),
                memory_limit |-> Float(-1), memory_reservation_expandable |-> TRUE,
                memory_reservation_mb |-> Float(0), memory_reservation_percentage |-> I64(0),
                memory_shares_level |-> "normal", memory_shares_value |-> I64(0)]
PoolCustom == [name |-> "rp-compute", type |-> "compute",
               cpu_limit |-> Float(1000), cpu_reservation_expandable |-> FALSE,
               cpu_reservation_mhz |-> Float(500), cpu_reservation_percentage |-> I64(50),
               cpu_shares_level |-> "custom", cpu_shares_value |-> I64(4000),
               memory_limit |-> Float(2048), memory_reservation_expandable |-> FALSE,
               memory_reservation_mb |-> Float(1024), memory_reservation_percentage |-> I64(25),
               memory_shares_level |-> "high", memory_shares_value |-> I64(100)]
\* cpu_shares_value 2^31 and memory_shares_value 2^32 + 1
PoolWide == [PoolCustom EXCEPT !.name = "rp-network", !.type = "network",
                               !.cpu_shares_value = <<0, 32768, 0, 0>>,
                               !.memory_shares_value = <<1, 0, 1, 0>>]
Pools == {PoolDefault, PoolCustom, PoolWide}

VmFolders == {NilFolder,
              FolderOf("map[string]interface{}", EmptyMap),
              FolderOf("map[string]interface{}", [k \in {"MANAGEMENT"} |-> Str("mgmt-vm")]),
              FolderOf("map[string]string", [k \in {"MANAGEMENT"} |-> "mgmt-vm"])}

Clusters == [cluster_name : {"sfo-w01-cl01"},
             cluster_evc_mode : {"", "intel-broadwell"},
             host_failures_to_tolerate : {I64(0), I64(1)},
             vm_folder : VmFolders,
             resource_pool : SeqsUpTo(Pools, MaxPools)]

InitCluster == /\ fn = "cluster"
               /\ rawData \in SeqsUpTo(Clusters, MaxItems)

GetClusterSpec ==
    /\ fn = "cluster" /\ pc = "start"
    /\ clusterRet' = GetSddcClusterSpecFromSchema(rawData)
    /\ pc' = "done"
    /\ UNCHANGED <<fn, rawData, convVars, destroyVars>>

\* ------------------------------------------------------- specification
ConvIdle == object = NilObject /\ ref = NilRef
DestroyIdle == /\ state = [n \in {} |-> 0] /\ remote = [n \in {} |-> 0]
               /\ remaining = {} /\ destroyRet = "none"
ClusterIdle == rawData = <<>>

Init == /\ pc = "start"
        /\ nicRet = NicNone
        /\ nsxRet = NsxNone
        /\ flat = NoFlat
        /\ clusterRet = ClusterNone
        /\ \/ InitNic /\ ref = NilRef /\ DestroyIdle /\ ClusterIdle
           \/ InitNsx /\ ref = NilRef /\ DestroyIdle /\ ClusterIdle
           \/ InitFlatten /\ DestroyIdle /\ ClusterIdle
           \/ InitRoundTrip /\ DestroyIdle /\ ClusterIdle
           \/ InitDestroy /\ ConvIdle /\ ClusterIdle
           \/ InitCluster /\ ConvIdle /\ DestroyIdle

Next == \/ ConvertVmNic
        \/ ConvertNsx
        \/ Flatten
        \/ DestroyVisit
        \/ DestroyReturn
        \/ GetClusterSpec

Spec == Init /\ [][Next]_vars

\* ====================================================== properties
NonEmptyStr(m, k) == k \in DOMAIN m /\ m[k].t = "string" /\ m[k].s # ""
EmptyField(m, k) == k \in DOMAIN m /\ (m[k] = Str("") \/ m[k] = List(<<>>))
ValidNode(n) == n.name.s # "" /\ n.ip_address.s # ""
ValidNodeList(v) == v.t = "list" /\ Len(v.l) > 0 /\ \A i \in 1..Len(v.l) : ValidNode(v.l[i])

NicOptional == {"uplink", "vds_name"}
NsxOptional == {"form_factor", "nsx_manager_audit_password"}

\* every key a schema knows, other than f, is validly populated (an optional
\* key may also be left out)
NicValidExcept(m, f) ==
    /\ "id" # f => NonEmptyStr(m, "id")
    /\ \A k \in NicOptional \ {f} : k \in DOMAIN m => NonEmptyStr(m, k)
NsxValidKey(m, k) ==
    IF k = "nsx_manager_node" THEN k \in DOMAIN m /\ ValidNodeList(m[k]) ELSE NonEmptyStr(m, k)
NsxValidExcept(m, f) ==
    /\ \A k \in NsxRequired \ {f} : NsxValidKey(m, k)
    /\ \A k \in NsxOptional \ {f} : k \in DOMAIN m => NonEmptyStr(m, k)
\* an object as NsxSchema delivers it
NsxConforms(m) == DOMAIN m \subseteq NsxSchemaKeys /\ NsxValidExcept(m, "")

NicField(r, k) == IF k = "uplink" THEN r.Uplink ELSE r.VdsName
NsxField(r, k) == IF k = "form_factor" THEN r.FormFactor ELSE r.NsxManagerAuditPassword

\* C1: a converter called with a non-nil object that omits one required field
\* (the others validly populated) returns an error whose message contains the
\* name of that field; it does not abort and does not return a result.
C1_OmittedRequiredIsNamedError ==
    (pc = "done" /\ ~object.nil) =>
      /\ (fn = "vmnic" /\ "id" \notin DOMAIN object.m /\ NicValidExcept(object.m, "id"))
            => (nicRet.kind = "err" /\ Contains(nicRet.msg, "id"))
      /\ fn = "nsx" =>
            \A f \in NsxRequired :
               (f \notin DOMAIN object.m /\ NsxValidExcept(object.m, f))
                  => (nsxRet.kind = "err" /\ Contains(nsxRet.msg, f))

C3_SchemaObjectConverts ==
    (fn = "nsx" /\ pc = "done" /\ ~object.nil /\ NsxConforms(object.m)) =>
      /\ nsxRet.kind = "ok"
      /\ nsxRet.Vip = object.m["vip"].s
      /\ nsxRet.VipFqdn = object.m["vip_fqdn"].s
      /\ nsxRet.NsxManagerAdminPassword = object.m["nsx_manager_admin_password"].s
      /\ nsxRet.LicenseKey = object.m["license_key"].s

\* C4: with an optional field omitted from, or empty in, an otherwise valid
\* object the conversion succeeds and the struct field stays the empty string.
C4_OptionalOmittedIsZero ==
    (pc = "done" /\ ~object.nil) =>
      /\ fn = "vmnic" =>
            \A f \in NicOptional :
               (NicValidExcept(object.m, f) /\ (f \notin DOMAIN object.m \/ EmptyField(object.m, f)))
                  => (nicRet.kind = "ok" /\ NicField(nicRet, f) = "")
      /\ fn = "nsx" =>
            \A f \in NsxOptional :
               (/\ DOMAIN object.m \subseteq NsxSchemaKeys
                /\ NsxValidExcept(object.m, f)
                /\ (f \notin DOMAIN object.m \/ EmptyField(object.m, f)))
                  => (nsxRet.kind = "ok" /\ NsxField(nsxRet, f) = "")

\* the reference carries the Vip and VipFqdn of the converted spec
RefCarries(r, spec) == ~r.nil /\ r.Vip = spec.Vip /\ r.VipFqdn = spec.VipFqdn

ReachesLoop(m) ==
    /\ \A k \in NsxRequired \ {"nsx_manager_node"} : NonEmptyStr(m, k)
    /\ Lookup(m, "nsx_manager") # Nil
    /\ Lookup(m, "nsx_manager_node").t = "list"
    /\ Len(m["nsx_manager_node"].l) > 0

\* C8: on success NsxManagerSpecs has one entry per nsx_manager_node element,
\* in order, each pointing to its own converted node; when an element fails to
\* convert the call returns that element's error and no spec at all.
C8_NodeSpecsOrAllNothing ==
    (fn = "nsx" /\ pc = "done" /\ ~object.nil /\ Lookup(object.m, "nsx_manager_node").t = "list") =>
      LET list == object.m["nsx_manager_node"].l
          bad == {i \in 1..Len(list) : ~ValidNode(list[i])}
          first == CHOOSE i \in bad : \A j \in bad : i <= j
          specs == nsxRet.NsxManagerSpecs
      IN /\ nsxRet.kind = "ok" =>
              /\ Len(specs) = Len(list)
              /\ \A i \in 1..Len(list) :
                    nsxRet.heap[specs[i]] = [Name |-> list[i].name.s,
                                             IpAddress |-> list[i].ip_address.s]
              /\ \A i, j \in 1..Len(list) : i # j => specs[i] # specs[j]
         /\ bad # {} =>
              /\ nsxRet.kind # "ok"
              /\ nsxRet = [NsxNone EXCEPT !.kind = nsxRet.kind, !.msg = nsxRet.msg]
              /\ ReachesLoop(object.m) =>
                    /\ nsxRet.kind = "err"
                    /\ nsxRet.msg = TryConvertToNsxManagerNodeSpec(list[first]).msg

\* two different nodes converted, in the order given
C8_Witness ==
    /\ fn = "nsx" /\ pc = "done" /\ nsxRet.kind = "ok"
    /\ object.m["nsx_manager_node"].l = <<NodeB, NodeA>>
    /\ Len(nsxRet.NsxManagerSpecs) = 2

\* C10: FlattenNsxClusterRef never returns a nil pointer; a nil reference gives
\* the empty map, a non-nil one the keys id, vip, vip_fqdn with the reference's
\* ID, Vip and VipFqdn; the reference is left as it was.
C10_FlattenResult ==
    [][(fn \in {"flatten", "roundtrip"} /\ pc # "done" /\ pc' = "done") =>
         /\ ~flat'.ptrNil
         /\ ref.nil => flat'.m = EmptyMap
         /\ ~ref.nil =>
              /\ DOMAIN flat'.m = NsxClusterRefKeys
              /\ flat'.m["id"] = Str(ref.ID)
              /\ flat'.m["vip"] = Str(ref.Vip)
              /\ flat'.m["vip_fqdn"] = Str(ref.VipFqdn)
         /\ ref' = ref]_vars

C10_Witness ==
    /\ fn = "flatten" /\ pc = "done" /\ ~ref.nil /\ ref.Vip = "10.0.0.67"
    /\ DOMAIN flat.m = NsxClusterRefKeys

\* C5: the destroy check returns an error whenever some vcf_domain resource of
\* the state is still returned with a payload, whatever the lookups of the
\* other resources answer and in whatever order the resources are visited; it
\* returns nil only when no vcf_domain resource still exists remotely.
C5_DestroyFailsWhenDomainRemains ==
    (fn = "destroy" /\ pc = "done") =>
      (destroyRet = "error" <=>
         \E name \in ResourceNames :
            state[name].Type = "vcf_domain" /\ remote[name] = "payload")

\* C7: a cluster block whose vm_folder is a map as the TypeMap attribute
\* delivers it (map[string]interface{} of strings) is converted without
\* aborting; VMFolders holds the same pairs, and is nil for an empty vm_folder.
C7_VmFolderCopied ==
    (fn = "cluster" /\ pc = "done" /\ Len(rawData) > 0
        /\ rawData[1].vm_folder.t = "map[string]interface{}") =>
      LET folder == rawData[1].vm_folder IN
      /\ clusterRet.kind = "ok"
      /\ DOMAIN folder.m = {} => clusterRet.VMFolders = NilFolder
      /\ DOMAIN folder.m # {} =>
            /\ clusterRet.VMFolders.t = "map[string]string"
            /\ DOMAIN clusterRet.VMFolders.m = DOMAIN folder.m
            /\ \A k \in DOMAIN folder.m : clusterRet.VMFolders.m[k] = folder.m[k].s

\* the spec carries the entry's settings: numbers are equal as numbers
PoolUnchanged(spec, data) ==
    /\ spec.Name = data.name
    /\ spec.Type = data.type
    /\ Float(spec.CPULimit) = data.cpu_limit
    /\ Float(spec.MemoryLimit) = data.memory_limit
    /\ spec.CPUReservationExpandable = data.cpu_reservation_expandable
    /\ Float(spec.CPUReservationMhz) = data.cpu_reservation_mhz
    /\ I64(spec.CPUReservationPercentage) = data.cpu_reservation_percentage
    /\ spec.MemoryReservationExpandable = data.memory_reservation_expandable
    /\ Float(spec.MemoryReservationMb) = data.memory_reservation_mb
    /\ I64(spec.MemoryReservationPercentage) = data.memory_reservation_percentage
    /\ spec.CPUSharesLevel = data.cpu_shares_level
    /\ I64(spec.CPUSharesValue) = data.cpu_shares_value
    /\ spec.MemorySharesLevel = data.memory_shares_level
    /\ I64(spec.MemorySharesValue) = data.memory_shares_value

\* C9: GetSddcClusterSpecFromSchema returns nil exactly for the empty list;
\* otherwise it builds one ResourcePoolSpec per resource_pool entry of the
\* first element, in order, each with the entry's settings unchanged, and
\* leaves ResourcePoolSpecs nil when there is no entry.
C9_ClusterSpecAndPools ==
    (fn = "cluster" /\ pc = "done") =>
      /\ clusterRet.kind = "nil" <=> Len(rawData) = 0
      /\ Len(rawData) > 0 =>
            LET pools == rawData[1].resource_pool
                specs == clusterRet.ResourcePoolSpecs
            IN /\ clusterRet.kind = "ok"
               /\ Len(pools) = 0 => specs.nil
               /\ Len(pools) > 0 =>
                     /\ ~specs.nil
                     /\ Len(specs.l) = Len(pools)
                     /\ \A i \in 1..Len(pools) : PoolUnchanged(specs.l[i], pools[i])

\* the limbs and the truncation compute what Go's conversions compute
IntModelSanity ==
    /\ I64(-1) = <<65535, 65535, 65535, 65535>>
    /\ \A n \in {-70000, -5, 0, 7, 65536, 2147483647} : Int32(I64(n)) = n
    /\ Int32(<<0, 32768, 0, 0>>) = -2147483647 - 1
    /\ Int32(<<1, 0, 1, 0>>) = 1
    /\ Int64OfFloat(Float(-1)) = -1 /\ Int64OfFloat(-3) = -1 /\ Int64OfFloat(3) = 1

\* C11: for every input, the nil object map included, TryConvertToVmNic and
\* TryConvertToNsxSpec return exactly one of a model and an error (the model is
\* non-nil exactly when the error is nil), and the input map is left unchanged.
C11_ResultXorError ==
    [][(fn \in {"vmnic", "nsx"} /\ pc = "start" /\ pc' = "done") =>
         /\ fn = "vmnic" =>
               /\ nicRet'.kind \in {"ok", "err"}
               /\ nicRet'.kind = "ok" <=> nicRet'.msg = NoMsg
         /\ fn = "nsx" =>
               /\ nsxRet'.kind \in {"ok", "err"}
               /\ nsxRet'.kind = "ok" <=> nsxRet'.msg = NoMsg
         /\ object' = object]_vars

\* C12: for every cpu_shares_value and memory_shares_value the schema accepts
\* (any integer), CPUSharesValue and MemorySharesValue hold a number equal to
\* the configured one: the narrowing to 32 bits does not change the value.
C12_SharesValueKept ==
    (fn = "cluster" /\ pc = "done" /\ clusterRet.kind = "ok") =>
      LET pools == rawData[1].resource_pool
          specs == clusterRet.ResourcePoolSpecs
      IN /\ Len(pools) > 0 => (~specs.nil /\ Len(specs.l) = Len(pools))
         /\ \A i \in 1..Len(pools) :
               /\ I64(specs.l[i].CPUSharesValue) = pools[i].cpu_shares_value
               /\ I64(specs.l[i].MemorySharesValue) = pools[i].memory_shares_value
====
